---- MODULE Spec2Model ----
(***************************************************************************)
(* The task store of kumarRaj/todo: the Task entity (src/core/task.js) and *)
(* the TaskRepository (src/storage/taskRepository.js) over the single      *)
(* `tasks` table.  Strings are sequences of one-character strings, times   *)
(* are naturals read from a clock that never goes back.                    *)
(***************************************************************************)
EXTENDS Integers, Sequences, FiniteSets, TLC

\* ------------------------------------------------------------------ bounds
MaxTasks == 3      \* ids the uuid generator can hand out
MaxTime == 2       \* last instant of the clock
MaxOps == 3        \* calls that change the store in one run
MaxOrderLen == 2   \* longest id sequence given to updateTaskPriorities

\* JavaScript null / SQL NULL (timestamps, dates and priorities are >= 0)
NULL == -1

Ids == 1..MaxTasks
Times == 1..MaxTime

\* --------------------------------------------------------------- characters
Lower == {"a","b","c","d","e","f","g","h","i","j","k","l","m",
          "n","o","p","q","r","s","t","u","v","w","x","y","z"}
Upper == {"A","B","C","D","E","F","G","H","I","J","K","L","M",
          "N","O","P","Q","R","S","T","U","V","W","X","Y","Z"}
Digits == {"0","1","2","3","4","5","6","7","8","9"}

\* \w of the JavaScript regular expressions
WordChars == Lower \cup Upper \cup Digits \cup {"_"}

UpperSeq == <<"A","B","C","D","E","F","G","H","I","J","K","L","M",
              "N","O","P","Q","R","S","T","U","V","W","X","Y","Z">>
LowerSeq == <<"a","b","c","d","e","f","g","h","i","j","k","l","m",
              "n","o","p","q","r","s","t","u","v","w","x","y","z">>

\* String.prototype.toLowerCase, one character
toLowerChar(ch) ==
  IF ch \in Upper
    THEN LowerSeq[CHOOSE i \in 1..26 : UpperSeq[i] = ch]
    ELSE ch

toLowerCase(s) == [i \in 1..Len(s) |-> toLowerChar(s[i])]

\* number of consecutive characters of class cls in s starting at index p
RECURSIVE RunLen(_, _, _)
RunLen(s, p, cls) ==
  IF p > Len(s) \/ p < 1 THEN 0
  ELSE IF s[p] \in cls THEN 1 + RunLen(s, p + 1, cls)
  ELSE 0

\* s has the literal lit at index p
HasAt(s, p, lit) ==
  /\ p >= 1
  /\ p + Len(lit) - 1 <= Len(s)
  /\ \A k \in 1..Len(lit) : s[p + k - 1] = lit[k]

Max(S) == CHOOSE x \in S : \A y \in S : y <= x

\* the element of a one-element set.  Only({e(x) : x \in {v}}) is e with x
\* bound to the value of v, computed once
Only(S) == CHOOSE x \in S : TRUE

\* ----------------------------------------------------------------- contents
\* the contents given to createTask and updateTaskContent:
\* "", "  ", "a #Work", "#personal-t http://a.io/b#c"
EmptyContent == <<>>
BlankContent == <<" ", " ">>
WorkContent == <<"a", " ", "#", "W", "o", "r", "k">>
UrlContent == <<"#", "p", "e", "r", "s", "o", "n", "a", "l", "-", "t", " ",
                "h", "t", "t", "p", ":", "/", "/",
                "a", ".", "i", "o", "/", "b", "#", "c">>
Contents == {EmptyContent, BlankContent, WorkContent, UrlContent}

\* a text without hashtag, as an edit that drops the hashtags sends it: "a"
PlainContent == <<"a">>

\* the contents given to updateTaskContent
NewContents == Contents \cup {PlainContent}

\* ------------------------------------------------------------- extractTags
\* content.match(/#(\w+)/g): leftmost matches, each the longest run of \w
RECURSIVE TagMatches(_, _)
TagMatches(s, p) ==
  IF p > Len(s) THEN <<>>
  ELSE IF s[p] = "#" /\ RunLen(s, p + 1, WordChars) > 0
    THEN LET n == RunLen(s, p + 1, WordChars)
         IN  <<SubSeq(s, p, p + n)>> \o TagMatches(s, p + n + 1)
    ELSE TagMatches(s, p + 1)

\* the mutant keeps the case of the text
TagsOfMatchesAsWritten(m) == [i \in 1..Len(m) |-> Tail(m[i])]

\* matches.map(tag => tag.substring(1).toLowerCase())
TagsOfMatches(m) == [i \in 1..Len(m) |-> toLowerCase(Tail(m[i]))]

\* extractTags tabulated once over the contents in use
TagTable == [c \in NewContents |-> TagsOfMatches(TagMatches(c, 1))]

extractTags(content) ==
  IF content \in NewContents THEN TagTable[content]
  ELSE TagsOfMatches(TagMatches(content, 1))

\* ------------------------------------------------------------- extractUrls
\* [-a-zA-Z0-9@:%._\+~#=]
HostChars == Lower \cup Upper \cup Digits \cup
             {"-", "@", ":", "%", ".", "_", "+", "~", "#", "="}
\* [a-zA-Z0-9()]
TldChars == Lower \cup Upper \cup Digits \cup {"(", ")"}
\* [-a-zA-Z0-9()@:%_\+.~#?&//=]
PathChars == Lower \cup Upper \cup Digits \cup
             {"-", "(", ")", "@", ":", "%", "_", "+", ".", "~", "#", "?",
              "&", "/", "="}

MaxHostLen == 256
MaxTldLen == 6

\* \b between index p-1 and index p of s
WordBoundary(s, p) ==
  LET before == p - 1 >= 1 /\ p - 1 <= Len(s) /\ s[p - 1] \in WordChars
      after == p >= 1 /\ p <= Len(s) /\ s[p] \in WordChars
  IN  before # after

\* the pairs <<n, m>> of host length and top-level length with which
\* [host]{1,256}\.[tld]{1,6}\b matches at index p
HostTldFits(s, p) ==
  LET hostRun == RunLen(s, p, HostChars)
      hostMax == IF hostRun < MaxHostLen THEN hostRun ELSE MaxHostLen
  IN  {nm \in (1..hostMax) \X (1..MaxTldLen) :
         /\ HasAt(s, p + nm[1], <<".">>)
         /\ nm[2] <= RunLen(s, p + nm[1] + 1, TldChars)
         /\ WordBoundary(s, p + nm[1] + 1 + nm[2])}

\* index after the match of host, dot, top level and path at p; 0 when the
\* pattern does not match there.  Both quantifiers are greedy: the longest
\* host first, then the longest top-level segment.
HostMatchEnd(s, p) ==
  LET fits == HostTldFits(s, p)
  IN  IF fits = {} THEN 0
      ELSE LET n == Max({nm[1] : nm \in fits})
               m == Max({nm[2] : nm \in {x \in fits : x[1] = n}})
               q == p + n + 1 + m
           IN  q + RunLen(s, q, PathChars)

\* index after the match of the whole URL pattern starting at p; 0 if none
UrlMatchEnd(s, p) ==
  LET http == <<"h","t","t","p">>
      sep == <<":","/","/">>
      www == <<"w","w","w",".">>
      a == IF HasAt(s, p, http)
             THEN (IF HasAt(s, p + 4, <<"s">>) /\ HasAt(s, p + 5, sep)
                     THEN p + 8
                     ELSE IF HasAt(s, p + 4, sep) THEN p + 7 ELSE 0)
             ELSE 0
  IN  IF a = 0 THEN 0
      ELSE Only({IF afterWww # 0 THEN afterWww ELSE HostMatchEnd(s, a) :
                   afterWww \in {IF HasAt(s, a, www)
                                   THEN HostMatchEnd(s, a + 4) ELSE 0}})

\* content.match(urlRegex) || []
RECURSIVE UrlMatches(_, _)
UrlMatches(s, p) ==
  IF p > Len(s) THEN <<>>
  ELSE Only({IF e # 0 THEN <<SubSeq(s, p, e - 1)>> \o UrlMatches(s, e)
             ELSE UrlMatches(s, p + 1) :
               e \in {UrlMatchEnd(s, p)}})

\* extractUrls tabulated once over the contents in use
UrlTable == [c \in NewContents |-> UrlMatches(c, 1)]

extractUrls(content) ==
  IF content \in NewContents THEN UrlTable[content] ELSE UrlMatches(content, 1)

\* ---------------------------------------------------------- JSON.stringify
\* of an array of strings.  Tags are runs of \w and URLs are drawn from
\* PathChars and HostChars: no character of them needs a JSON escape.
RECURSIVE JoinQuoted(_)
JoinQuoted(arr) ==
  IF arr = <<>> THEN <<>>
  ELSE <<"\"">> \o Head(arr) \o <<"\"">> \o
       (IF Len(arr) > 1 THEN <<",">> ELSE <<>>) \o JoinQuoted(Tail(arr))

JSONstringify(arr) == <<"[">> \o JoinQuoted(arr) \o <<"]">>

\* -------------------------------------------------------------- JSON.parse
\* of the text JSONstringify writes: the strings between successive pairs
\* of double quotes
RECURSIVE ParseItems(_, _)
ParseItems(s, p) ==
  IF p > Len(s) THEN <<>>
  ELSE IF s[p] = "\""
    THEN LET n == RunLen(s, p + 1, PathChars \cup HostChars \cup TldChars)
         IN  <<SubSeq(s, p + 1, p + n)>> \o ParseItems(s, p + n + 2)
    ELSE ParseItems(s, p + 1)

JSONparse(s) == ParseItems(s, 1)

\* ------------------------------------------------------------------- inputs
Statuses == {"pending", "in_progress", "waiting", "completed"}
ActiveStatuses == {"pending", "in_progress", "waiting"}
\* a status outside Task.STATUS
BadStatus == "archived"
StatusInputs == Statuses \cup {BadStatus}

Directions == {"up", "down", "sideways"}

\* newContent.trim() === ''
IsBlank(content) == \A i \in 1..Len(content) : content[i] = " "

\* a day given as a preformatted string, YYYY-MM-DD
Days == {1}

\* id sequences for updateTaskPriorities
RECURSIVE SeqsUpTo(_, _)
SeqsUpTo(S, n) ==
  IF n = 0 THEN {<<>>}
  ELSE LET shorter == SeqsUpTo(S, n - 1)
       IN  shorter \cup {Append(q, x) : q \in {r \in shorter : Len(r) = n - 1},
                                        x \in S}

\* an id no row ever has
MissingId == MaxTasks + 1

\* the ids a call is made with: every stored id and one that matches no row
IdInputs(st) == (DOMAIN st) \cup {MissingId}

IdOrders(st) == SeqsUpTo(IdInputs(st), MaxOrderLen)

VARIABLES rows, now, nops, last, firstCompleted, tx, db, call
vars == <<rows, now, nops, last, firstCompleted, tx, db, call>>

\* --------------------------------------------------------------------- Task
\* a destructured parameter: the default applies when the key is missing
Arg(data, name, default) ==
  IF name \in DOMAIN data THEN data[name] ELSE default

\* new Task(data) at instant t; uuid is the id uuidv4() would return
Task(data, uuid, t) ==
  [id |-> Arg(data, "id", uuid),
   content |-> data.content,
   priority |-> Arg(data, "priority", 0),
   status |-> Arg(data, "status", "pending"),
   createdAt |-> Arg(data, "createdAt", t),
   completedAt |-> Arg(data, "completedAt", NULL),
   scheduledFor |-> Arg(data, "scheduledFor", NULL),
   updatedAt |-> Arg(data, "updatedAt", t),
   extractedUrls |-> extractUrls(data.content),
   tags |-> extractTags(data.content)]

complete(task, t) ==
  [task EXCEPT !.status = "completed", !.completedAt = t, !.updatedAt = t]

\* the mutant does not stamp the completion
setStatusNoStamp(task, status, t) ==
  [task EXCEPT !.status = status, !.updatedAt = t,
               !.completedAt = IF status # "completed" /\ @ # NULL
                                 THEN NULL ELSE @]

\* the status is one of Task.STATUS; otherwise setStatus throws
setStatus(task, status, t) ==
  [task EXCEPT !.status = status, !.updatedAt = t,
               !.completedAt = IF status = "completed" THEN t
                               ELSE IF @ # NULL THEN NULL ELSE @]

\* the mutant accepts any status
ValidStatusAny(status) == TRUE

ValidStatus(status) == status \in Statuses

schedule(task, date, t) ==
  [task EXCEPT !.scheduledFor = date, !.updatedAt = t]

setPriority(task, priority, t) ==
  [task EXCEPT !.priority = priority, !.updatedAt = t]

toJSON(task) ==
  [id |-> task.id,
   content |-> task.content,
   priority |-> task.priority,
   status |-> task.status,
   createdAt |-> task.createdAt,
   completedAt |-> task.completedAt,
   scheduledFor |-> task.scheduledFor,
   updatedAt |-> task.updatedAt,
   extractedUrls |-> JSONstringify(task.extractedUrls),
   tags |-> JSONstringify(task.tags)]

\* Task.fromJSON(row): the row's keys are the column names; the empty
\* string is falsy
fromJSON(data, t) ==
  Task([k \in (DOMAIN data) \cup {"extractedUrls", "tags"} |->
          IF k = "extractedUrls"
            THEN (IF "extractedUrls" \in DOMAIN data /\ data.extractedUrls # <<>>
                    THEN JSONparse(data.extractedUrls) ELSE <<>>)
          ELSE IF k = "tags"
            THEN (IF "tags" \in DOMAIN data /\ data.tags # <<>>
                    THEN JSONparse(data.tags) ELSE <<>>)
          ELSE data[k]],
       NULL, t)

\* ---------------------------------------------------------------- the store
\* rows: the tasks table, a function from the ids present to their rows

\* JavaScript a || b on numbers: null and 0 are falsy
OrElse(a, b) == IF a = NULL \/ a = 0 THEN b ELSE a

\* SELECT MAX(priority) FROM tasks WHERE status = ?  (NULL on no row)
SelectMaxPriority(st, status) ==
  LET ps == {st[i].priority : i \in {j \in DOMAIN st : st[j].status = status}}
  IN  IF ps = {} THEN NULL ELSE Max(ps)

\* the mutant inserts the row without its date
InsertRowUnscheduled(st, taskData) ==
  [i \in (DOMAIN st) \cup {taskData.id} |->
     IF i = taskData.id
       THEN [id |-> taskData.id,
             content |-> taskData.content,
             priority |-> taskData.priority,
             status |-> taskData.status,
             created_at |-> taskData.createdAt,
             completed_at |-> taskData.completedAt,
             scheduled_for |-> NULL,
             updated_at |-> taskData.updatedAt,
             extracted_urls |-> taskData.extractedUrls,
             tags |-> taskData.tags]
       ELSE st[i]]

\* INSERT INTO tasks (...) VALUES (...) with the values createTask binds
InsertRow(st, taskData) ==
  [i \in (DOMAIN st) \cup {taskData.id} |->
     IF i = taskData.id
       THEN [id |-> taskData.id,
             content |-> taskData.content,
             priority |-> taskData.priority,
             status |-> taskData.status,
             created_at |-> taskData.createdAt,
             completed_at |-> taskData.completedAt,
             scheduled_for |-> taskData.scheduledFor,
             updated_at |-> taskData.updatedAt,
             extracted_urls |-> taskData.extractedUrls,
             tags |-> taskData.tags]
       ELSE st[i]]

\* the mutant leaves updated_at out of the UPDATE
updateTaskNoStamp(st, task) ==
  Only({[i \in DOMAIN st |->
           IF i = taskData.id
             THEN [st[i] EXCEPT !.content = taskData.content,
                                !.priority = taskData.priority,
                                !.status = taskData.status,
                                !.completed_at = taskData.completedAt,
                                !.scheduled_for = taskData.scheduledFor,
                                !.extracted_urls = taskData.extractedUrls,
                                !.tags = taskData.tags]
             ELSE st[i]] :
          taskData \in {toJSON(task)}})

\* updateTask(task): UPDATE tasks SET ... WHERE id = ?
updateTask(st, task) ==
  Only({[i \in DOMAIN st |->
           IF i = taskData.id
             THEN [st[i] EXCEPT !.content = taskData.content,
                                !.priority = taskData.priority,
                                !.status = taskData.status,
                                !.completed_at = taskData.completedAt,
                                !.scheduled_for = taskData.scheduledFor,
                                !.updated_at = taskData.updatedAt,
                                !.extracted_urls = taskData.extractedUrls,
                                !.tags = taskData.tags]
             ELSE st[i]] :
          taskData \in {toJSON(task)}})

\* getTaskById: <<>> is null, <<task>> the task read at instant t
getTaskById(st, id, t) ==
  IF id \in DOMAIN st THEN <<fromJSON(st[id], t)>> ELSE <<>>

ActiveIds(st) == {i \in DOMAIN st : st[i].status \in ActiveStatuses}

\* the orders in which SELECT ... WHERE status IN (active) ORDER BY priority
\* ASC may list the rows: the order of rows of equal priority is not fixed
ActiveOrders(st) ==
  LET n == Cardinality(ActiveIds(st))
  IN  {o \in [1..n -> ActiveIds(st)] :
         /\ \A a, b \in 1..n : a # b => o[a] # o[b]
         /\ \A a, b \in 1..n : a < b => st[o[a]].priority <= st[o[b]].priority}

\* what a call returns: the new table, the returned task (<<>> is null),
\* the returned boolean and the error thrown ("" when none)
Outcome(st, ret, ok, err) == [rows |-> st, ret |-> ret, ok |-> ok, err |-> err]

\* the id uuidv4() returns: one that no row has
FreshId(st) == CHOOSE i \in Ids \ DOMAIN st : \A j \in Ids \ DOMAIN st : i <= j

\* ------------------------------------------------------------ TaskRepository
createTask(st, content, scheduledFor, t) ==
  Only({Outcome(InsertRow(st, toJSON(task)), <<task>>, TRUE, "") :
          task \in {setPriority(
                      Task([content |-> content, scheduledFor |-> scheduledFor],
                           FreshId(st), t),
                      OrElse(SelectMaxPriority(st, "pending"), -1) + 1, t)}})

\* a found task, changed, is written and returned; no task found is null
Written(st, found, task) ==
  IF found = <<>> THEN Outcome(st, <<>>, FALSE, "")
  ELSE Outcome(updateTask(st, task), <<task>>, TRUE, "")

markCompleted(st, taskId, t) ==
  Only({Written(st, found, complete(found[1], t)) :
          found \in {getTaskById(st, taskId, t)}})

changeTaskStatus(st, taskId, status, t) ==
  Only({IF found # <<>> /\ ~ValidStatus(status)
          THEN Outcome(st, <<>>, FALSE, "InvalidStatus")
          ELSE Written(st, found, setStatus(found[1], status, t)) :
          found \in {getTaskById(st, taskId, t)}})

markInProgress(st, taskId, t) == changeTaskStatus(st, taskId, "in_progress", t)

markWaiting(st, taskId, t) == changeTaskStatus(st, taskId, "waiting", t)

markPending(st, taskId, t) == changeTaskStatus(st, taskId, "pending", t)

\* the mutant numbers the positions from 1
RECURSIVE RunPriorityUpdatesFromOne(_, _, _, _)
RunPriorityUpdatesFromOne(st, taskIdOrder, from, t) ==
  IF from > Len(taskIdOrder) THEN st
  ELSE RunPriorityUpdatesFromOne(
         [i \in DOMAIN st |->
            IF i = taskIdOrder[from]
              THEN [st[i] EXCEPT !.priority = from, !.updated_at = t]
              ELSE st[i]],
         taskIdOrder, from + 1, t)

\* UPDATE tasks SET priority = ?, updated_at = ? WHERE id = ?, once for
\* each element of taskIdOrder from index `from` on
RECURSIVE RunPriorityUpdates(_, _, _, _)
RunPriorityUpdates(st, taskIdOrder, from, t) ==
  IF from > Len(taskIdOrder) THEN st
  ELSE RunPriorityUpdates(
         [i \in DOMAIN st |->
            IF i = taskIdOrder[from]
              THEN [st[i] EXCEPT !.priority = from - 1, !.updated_at = t]
              ELSE st[i]],
         taskIdOrder, from + 1, t)

updateTaskPriorities(st, taskIdOrder, t) ==
  Outcome(RunPriorityUpdates(st, taskIdOrder, 1, t), <<>>, TRUE, "")

\* the mutant writes the whole task back with updateTask
UpdateContentRowByUpdateTask(st, taskId, task) == updateTask(st, task)

\* UPDATE tasks SET content = ?, extracted_urls = ?, tags = ?,
\* updated_at = ? WHERE id = ?
UpdateContentRow(st, taskId, task) ==
  [i \in DOMAIN st |->
     IF i = taskId
       THEN [st[i] EXCEPT !.content = task.content,
                          !.extracted_urls = JSONstringify(task.extractedUrls),
                          !.tags = JSONstringify(task.tags),
                          !.updated_at = task.updatedAt]
       ELSE st[i]]

\* the mutant keeps the tags and URLs the task had
SetContentStale(task, newContent, t) ==
  [task EXCEPT !.content = newContent, !.updatedAt = t]

\* task.content = newContent; task.extractedUrls = task.extractUrls();
\* task.tags = task.extractTags(); task.updatedAt = new Date().toISOString()
SetContent(task, newContent, t) ==
  [task EXCEPT !.content = newContent,
               !.extractedUrls = extractUrls(newContent),
               !.tags = extractTags(newContent),
               !.updatedAt = t]

updateTaskContent(st, taskId, newContent, t) ==
  Only({IF found = <<>> THEN Outcome(st, <<>>, FALSE, "")
        ELSE Only({Outcome(UpdateContentRow(st, taskId, task), <<task>>,
                           TRUE, "") :
                     task \in {SetContent(found[1], newContent, t)}}) :
          found \in {getTaskById(st, taskId, t)}})

\* the mutant throws when no row has the id
scheduleTaskThrows(st, taskId, date, t) ==
  Only({IF found = <<>> THEN Outcome(st, <<>>, FALSE, "TypeError")
        ELSE Written(st, found, schedule(found[1], date, t)) :
          found \in {getTaskById(st, taskId, t)}})

scheduleTask(st, taskId, date, t) ==
  Only({Written(st, found, schedule(found[1], date, t)) :
          found \in {getTaskById(st, taskId, t)}})

\* the mutant numbers the tasks from 1
RECURSIVE ReindexFromOne(_, _, _, _)
ReindexFromOne(st, reorderedTasks, from, t) ==
  IF from > Len(reorderedTasks) THEN st
  ELSE Only({ReindexFromOne(st2, reorderedTasks, from + 1, t) :
               st2 \in {updateTask(st, setPriority(reorderedTasks[from],
                                                   from, t))}})

\* reorderedTasks.forEach((t, index) => { t.setPriority(index);
\* this.updateTask(t) }) from index `from` on
RECURSIVE Reindex(_, _, _, _)
Reindex(st, reorderedTasks, from, t) ==
  IF from > Len(reorderedTasks) THEN st
  ELSE Only({Reindex(st2, reorderedTasks, from + 1, t) :
               st2 \in {updateTask(st, setPriority(reorderedTasks[from],
                                                   from - 1, t))}})

\* the mutant removes the task and puts it back where it was
MoveInSeqBack(q, currentIndex, newIndex) == q

\* splice(currentIndex, 1) then splice(newIndex, 0, movedTask); 1-based
MoveInSeq(q, currentIndex, newIndex) ==
  [i \in 1..Len(q) |->
     IF i = newIndex THEN q[currentIndex]
     ELSE IF i < newIndex
       THEN (IF i < currentIndex THEN q[i] ELSE q[i + 1])
       ELSE (IF i - 1 < currentIndex THEN q[i - 1] ELSE q[i])]

\* the mutant wraps around at both ends of the list
NewIndexWrap(currentIndex, direction, length) ==
  IF direction = "up"
    THEN (IF currentIndex - 1 >= 1 THEN currentIndex - 1 ELSE length)
    ELSE (IF currentIndex + 1 <= length THEN currentIndex + 1 ELSE 1)

\* Math.max(0, currentIndex - 1) and Math.min(length - 1, currentIndex + 1),
\* 1-based
NewIndex(currentIndex, direction, length) ==
  IF direction = "up"
    THEN (IF currentIndex - 1 > 1 THEN currentIndex - 1 ELSE 1)
    ELSE (IF currentIndex + 1 < length THEN currentIndex + 1 ELSE length)

\* getAllActiveTasks() when the query lists the active ids as activeOrder
getAllActiveTasks(st, activeOrder, t) ==
  [i \in 1..Len(activeOrder) |-> fromJSON(st[activeOrder[i]], t)]

\* allTasks.findIndex(t => t.id === taskId), 1-based; 0 when none
FindIndex(allTasks, taskId) ==
  IF \E i \in 1..Len(allTasks) : allTasks[i].id = taskId
    THEN CHOOSE i \in 1..Len(allTasks) :
           /\ allTasks[i].id = taskId
           /\ \A j \in 1..(i - 1) : allTasks[j].id # taskId
    ELSE 0

\* the mutant returns the task as read before the transaction
MoveToUnread(st, taskId, allTasks, currentIndex, newIndex, t) ==
  Only({Outcome(st2, getTaskById(st, taskId, t), TRUE, "") :
          st2 \in {Reindex(st, MoveInSeq(allTasks, currentIndex, newIndex),
                           1, t)}})

\* the transaction of moveTask and the task read back after it
MoveTo(st, taskId, allTasks, currentIndex, newIndex, t) ==
  Only({Outcome(st2, getTaskById(st2, taskId, t), TRUE, "") :
          st2 \in {Reindex(st, MoveInSeq(allTasks, currentIndex, newIndex),
                           1, t)}})

\* moveTask from the index of the task on
MoveFrom(st, found, taskId, direction, allTasks, currentIndex, t) ==
  IF currentIndex = 0 THEN Outcome(st, <<>>, FALSE, "")
  ELSE IF direction \notin {"up", "down"} THEN Outcome(st, <<>>, FALSE, "")
  ELSE Only({IF newIndex = currentIndex THEN Outcome(st, found, TRUE, "")
             ELSE MoveTo(st, taskId, allTasks, currentIndex, newIndex, t) :
               newIndex \in {NewIndex(currentIndex, direction, Len(allTasks))}})

\* activeOrder: the order in which getAllActiveTasks lists the active ids
moveTask(st, taskId, direction, activeOrder, t) ==
  Only({IF found = <<>> THEN Outcome(st, <<>>, FALSE, "")
        ELSE IF found[1].status = "completed" THEN Outcome(st, <<>>, FALSE, "")
        ELSE Only({MoveFrom(st, found, taskId, direction, allTasks,
                            currentIndex, t) :
                     currentIndex \in {FindIndex(allTasks, taskId)}}) :
          found \in {getTaskById(st, taskId, t)},
          allTasks \in {getAllActiveTasks(st, activeOrder, t)}})

\* the command `move <index> <direction>` of the CLI; index: the number
\* typed, from 1; pendingTasks: the ids getAllPendingTasks lists
cliMove(st, index, direction, pendingTasks, activeOrder, t) ==
  IF index < 1 \/ index > Len(pendingTasks)
    THEN Outcome(st, <<>>, FALSE, "Invalid task index")
  ELSE IF direction \notin {"up", "down"}
    THEN Outcome(st, <<>>, FALSE, "Direction must be \"up\" or \"down\"")
  ELSE moveTask(st, pendingTasks[index], direction, activeOrder, t)

\* the mutant reports a removed row whatever the id
deleteTaskAlwaysTrue(st, taskId) ==
  Outcome([i \in (DOMAIN st) \ {taskId} |-> st[i]], <<>>, TRUE, "")

deleteTask(st, taskId) ==
  Outcome([i \in (DOMAIN st) \ {taskId} |-> st[i]], <<>>,
          taskId \in DOMAIN st, "")

\* ------------------------------------------------------------------ queries
\* A query result is given as the sequence of the ids of the rows it lists;
\* the tasks returned are fromJSON of these rows.  ORDER BY fixes the order
\* only as far as the sort keys differ: every order of rows with equal keys
\* is a possible result.

\* the arrangements of the ids S in a sequence
Arrangements(S) ==
  {o \in [1..Cardinality(S) -> S] :
     \A a, b \in 1..Cardinality(S) : a # b => o[a] # o[b]}

\* precedes: the pairs <<i, j>> of ids the ORDER BY puts in that order;
\* the arrangements of S in which no id stands after one it precedes
ListingsBy(S, precedes) ==
  {o \in Arrangements(S) :
     \A a, b \in 1..Cardinality(S) : a < b => <<o[b], o[a]>> \notin precedes}

\* the key that sorts completed tasks after the others
CompletedSortKey == 999999

\* the mutant sorts by priority alone
SortKeyPriority(row) == row.priority

\* CASE WHEN status = 'completed' THEN 999999 ELSE priority END
SortKey(row) ==
  IF row.status = "completed" THEN CompletedSortKey ELSE row.priority

\* ORDER BY CASE ... END, completed_at DESC (NULL sorts below every value)
AllTasksPrecedes(st, i, j) ==
  \/ SortKey(st[i]) < SortKey(st[j])
  \/ /\ SortKey(st[i]) = SortKey(st[j])
     /\ st[i].completed_at > st[j].completed_at

\* the pairs of rows of st that ORDER BY CASE ... END, completed_at DESC
\* puts in that order
AllTasksOrder(st) ==
  {p \in (DOMAIN st) \X (DOMAIN st) : AllTasksPrecedes(st, p[1], p[2])}

\* text LIKE '%pattern%' for a pattern without wildcard: the pattern occurs
\* in the text, letters compared without regard to case
Like(text, pattern) ==
  \E p \in 1..Len(text) : HasAt(toLowerCase(text), p, toLowerCase(pattern))

\* the filters of getTasksFilteredByWorkPersonal and their tag
Filters == {"work", "personal", "both"}
FilterTag ==
  [work |-> <<"w", "o", "r", "k">>,
   personal |-> <<"p", "e", "r", "s", "o", "n", "a", "l">>,
   both |-> <<>>]

\* the mutant drops the WHERE clause
WhereTagsAny(st, filter) == DOMAIN st

\* WHERE tags LIKE '%"work"%' / '%"personal"%'; no WHERE clause otherwise
WhereTags(st, filter) ==
  IF filter \in {"work", "personal"}
    THEN {i \in DOMAIN st :
            Like(st[i].tags, <<"\"">> \o FilterTag[filter] \o <<"\"">>)}
    ELSE DOMAIN st

getAllTasks(st) == ListingsBy(DOMAIN st, AllTasksOrder(st))

getTasksFilteredByWorkPersonal(st, filter) ==
  ListingsBy(WhereTags(st, filter), AllTasksOrder(st))

\* tag: the tag as text; WHERE tags LIKE '%"<tag>"%'
getTasksByTag(st, tag) ==
  ListingsBy({i \in DOMAIN st :
                Like(st[i].tags, <<"\"">> \o tag \o <<"\"">>)},
             AllTasksOrder(st))

\* WHERE status = 'pending' ORDER BY priority ASC
getAllPendingTasks(st) ==
  ListingsBy({i \in DOMAIN st : st[i].status = "pending"},
             {p \in (DOMAIN st) \X (DOMAIN st) :
                st[p[1]].priority < st[p[2]].priority})

\* completed_at >= ? AND completed_at <= ?  (never true of NULL)
InRange(completedAt, startDate, endDate) ==
  /\ completedAt # NULL
  /\ completedAt >= startDate
  /\ completedAt <= endDate

\* WHERE status = 'completed' AND completed_at >= ? AND completed_at <= ?
\* ORDER BY completed_at DESC
getCompletedInRange(st, startDate, endDate) ==
  ListingsBy({i \in DOMAIN st :
                /\ st[i].status = "completed"
                /\ InRange(st[i].completed_at, startDate, endDate)},
             {p \in (DOMAIN st) \X (DOMAIN st) :
                st[p[1]].completed_at > st[p[2]].completed_at})

\* CASE WHEN status = 'completed' THEN completed_at ELSE updated_at END
StatusSortKey(row) ==
  IF row.status = "completed" THEN row.completed_at ELSE row.updated_at

\* the mutant leaves the WHERE clause out
getTasksByStatusAny(st, status) ==
  ListingsBy(DOMAIN st,
             {p \in (DOMAIN st) \X (DOMAIN st) :
                StatusSortKey(st[p[1]]) > StatusSortKey(st[p[2]])})

\* WHERE status = ? ORDER BY CASE ... END DESC
getTasksByStatus(st, status) ==
  ListingsBy({i \in DOMAIN st : st[i].status = status},
             {p \in (DOMAIN st) \X (DOMAIN st) :
                StatusSortKey(st[p[1]]) > StatusSortKey(st[p[2]])})

\* the results getTasksGroupedByStatus can give: one listing for each key
getTasksGroupedByStatus(st) ==
  {[active |-> a, pending |-> p, in_progress |-> i, waiting |-> w,
    completed |-> c] :
     a \in ActiveOrders(st),
     p \in getTasksByStatus(st, "pending"),
     i \in getTasksByStatus(st, "in_progress"),
     w \in getTasksByStatus(st, "waiting"),
     c \in getTasksByStatus(st, "completed")}

\* ------------------------------------------------------------ state machine
\* rows: the tasks table as committed, which is what every read returns;
\* now: the clock; nops: the calls that have changed the table so far;
\* last: the latest of them, its name and the id it was given;
\* firstCompleted: for each id, the first completion timestamp its row has
\* carried (NULL when none yet); tx: the transaction of moveTask or
\* updateTaskPriorities when its writes are followed one by one

\* no transaction has been followed
NoTx ==
  [phase |-> "none", op |-> "none", id |-> 0, direction |-> "none",
   order |-> <<>>, before |-> <<>>, work |-> <<>>, todo |-> <<>>,
   started |-> 0]

\* db: the store file's schema version and table, the connection the
\* DatabaseManager holds (manager) and the one the TaskRepository holds
\* (repo), the connections that are open, and what the calls did:
\*   opened   the number of connections opened so far
\*   ran      the migrations the latest initialize wrote
\*   runsV1, runsV2  how often each migration has completed
\*   err      the error the latest call threw, "" for none
\*   calls    the number of calls made
\* ReadyDb: a repository after its first use on a new store
ReadyDb ==
  [version |-> 2, table |-> "current", manager |-> 1, repo |-> 1,
   open |-> {1}, opened |-> 1, ran |-> {"v1", "v2"}, runsV1 |-> 1,
   runsV2 |-> 1, err |-> "", calls |-> 0]

\* call: a content, and once extractTags has run on it the tags it returned
NoCall == [content |-> <<>>, tags |-> <<>>, done |-> FALSE]

Init ==
  /\ rows = <<>>
  /\ now = 1
  /\ nops = 0
  /\ last = [op |-> "none", id |-> 0]
  /\ firstCompleted = [i \in Ids |-> NULL]
  /\ tx = NoTx
  /\ db = ReadyDb
  /\ call = NoCall

\* the table takes the outcome of the call op(id, ...)
Finish(op, id, out) ==
  /\ tx.phase # "open"
  /\ tx' = NoTx
  /\ rows' = out.rows
  /\ nops' = IF out.rows = rows THEN nops ELSE nops + 1
  /\ last' = IF out.rows = rows THEN last ELSE [op |-> op, id |-> id]
  /\ firstCompleted' =
       [i \in Ids |->
          IF i \notin DOMAIN out.rows THEN NULL
          ELSE IF firstCompleted[i] = NULL THEN out.rows[i].completed_at
          ELSE firstCompleted[i]]
  /\ UNCHANGED <<now, db, call>>

\* the scheduledFor values createTask is called with
DateInputs == Days \cup {NULL}

CreateTask ==
  /\ nops < MaxOps
  /\ Cardinality(DOMAIN rows) < MaxTasks
  /\ \E content \in Contents, scheduledFor \in DateInputs :
       \E out \in {createTask(rows, content, scheduledFor, now)} :
         Finish("createTask", FreshId(rows), out)

GetTaskById ==
  /\ nops < MaxOps
  /\ \E id \in IdInputs(rows) :
       \E out \in {Outcome(rows, getTaskById(rows, id, now), FALSE, "")} :
         Finish("getTaskById", id, out)

MarkCompleted ==
  /\ nops < MaxOps
  /\ \E id \in IdInputs(rows) :
       \E out \in {markCompleted(rows, id, now)} :
         Finish("markCompleted", id, out)

ChangeTaskStatus ==
  /\ nops < MaxOps
  /\ \E id \in IdInputs(rows), status \in StatusInputs :
       \E out \in {changeTaskStatus(rows, id, status, now)} :
         Finish("changeTaskStatus", id, out)

MarkInProgress ==
  /\ nops < MaxOps
  /\ \E id \in IdInputs(rows) :
       \E out \in {markInProgress(rows, id, now)} :
         Finish("markInProgress", id, out)

MarkWaiting ==
  /\ nops < MaxOps
  /\ \E id \in IdInputs(rows) :
       \E out \in {markWaiting(rows, id, now)} :
         Finish("markWaiting", id, out)

MarkPending ==
  /\ nops < MaxOps
  /\ \E id \in IdInputs(rows) :
       \E out \in {markPending(rows, id, now)} :
         Finish("markPending", id, out)

UpdateTaskPriorities ==
  /\ nops < MaxOps
  /\ \E taskIdOrder \in IdOrders(rows) :
       \E out \in {updateTaskPriorities(rows, taskIdOrder, now)} :
         Finish("updateTaskPriorities", 0, out)

UpdateTaskContent ==
  /\ nops < MaxOps
  /\ \E id \in IdInputs(rows), newContent \in NewContents :
       \E out \in {updateTaskContent(rows, id, newContent, now)} :
         Finish("updateTaskContent", id, out)

ScheduleTask ==
  /\ nops < MaxOps
  /\ \E id \in IdInputs(rows), date \in Days :
       \E out \in {scheduleTask(rows, id, date, now)} :
         Finish("scheduleTask", id, out)

MoveTask ==
  /\ nops < MaxOps
  /\ \E id \in IdInputs(rows), direction \in Directions,
        activeOrder \in ActiveOrders(rows) :
       \E out \in {moveTask(rows, id, direction, activeOrder, now)} :
         Finish("moveTask", id, out)

DeleteTask ==
  /\ nops < MaxOps
  /\ \E id \in IdInputs(rows) :
       \E out \in {deleteTask(rows, id)} :
         Finish("deleteTask", id, out)

\* the queries read the table and change nothing
GetAllTasks ==
  /\ nops < MaxOps
  /\ \E listing \in getAllTasks(rows) : UNCHANGED vars

GetTasksFilteredByWorkPersonal ==
  /\ nops < MaxOps
  /\ \E filter \in Filters :
       \E listing \in getTasksFilteredByWorkPersonal(rows, filter) :
         UNCHANGED vars

GetTasksByTag ==
  /\ nops < MaxOps
  /\ \E tag \in {FilterTag.work, FilterTag.personal} :
       \E listing \in getTasksByTag(rows, tag) : UNCHANGED vars

GetAllPendingTasks ==
  /\ nops < MaxOps
  /\ \E listing \in getAllPendingTasks(rows) : UNCHANGED vars

GetCompletedInRange ==
  /\ nops < MaxOps
  /\ \E startDate \in Times, endDate \in Times :
       \E listing \in getCompletedInRange(rows, startDate, endDate) :
         UNCHANGED vars

CliMove ==
  /\ nops < MaxOps
  /\ \E pendingTasks \in getAllPendingTasks(rows), index \in 0..MaxTasks,
        direction \in Directions, activeOrder \in ActiveOrders(rows) :
       \E out \in {cliMove(rows, index, direction, pendingTasks,
                            activeOrder, now)} :
         Finish("moveTask",
                IF index \in 1..Len(pendingTasks) THEN pendingTasks[index]
                ELSE 0,
                out)

GetTasksGroupedByStatus ==
  /\ nops < MaxOps
  /\ \E grouped \in getTasksGroupedByStatus(rows) : UNCHANGED vars

\* the clock advances between calls
Tick ==
  /\ now < MaxTime
  /\ now' = now + 1
  /\ UNCHANGED <<rows, nops, last, firstCompleted, tx, db, call>>

Next ==
  \/ CreateTask
  \/ GetTaskById
  \/ MarkCompleted
  \/ ChangeTaskStatus
  \/ MarkInProgress
  \/ MarkWaiting
  \/ MarkPending
  \/ UpdateTaskPriorities
  \/ UpdateTaskContent
  \/ ScheduleTask
  \/ MoveTask
  \/ DeleteTask
  \/ GetAllTasks
  \/ GetTasksFilteredByWorkPersonal
  \/ GetTasksByTag
  \/ GetAllPendingTasks
  \/ GetCompletedInRange
  \/ GetTasksGroupedByStatus
  \/ CliMove
  \/ Tick

Spec == Init /\ [][Next]_vars

\* ------------------------------------------------------------- transactions
\* this.db.transaction(fn)(): BEGIN, the writes of fn one by one on the
\* connection's working copy, then COMMIT; a write that throws ends the
\* transaction with ROLLBACK and the error reaches the caller

\* the writes updateTaskPriorities runs: one UPDATE for each element
PriorityWrites(taskIdOrder) ==
  [k \in 1..Len(taskIdOrder) |->
     [id |-> taskIdOrder[k], priority |-> k - 1, task |-> <<>>]]

\* the writes of moveTask, one updateTask for each reordered task
TaskWrites(reorderedTasks) ==
  [k \in 1..Len(reorderedTasks) |->
     [id |-> reorderedTasks[k].id, priority |-> k - 1,
      task |-> <<reorderedTasks[k]>>]]

\* the reordered tasks moveTask is about to write; <<>> when it returns
\* before its transaction
MoveReordered(st, taskId, direction, activeOrder, t) ==
  Only({IF \/ found = <<>>
           \/ found[1].status = "completed"
           \/ currentIndex = 0
           \/ direction \notin {"up", "down"}
          THEN <<>>
        ELSE Only({IF newIndex = currentIndex THEN <<>>
                   ELSE MoveInSeq(allTasks, currentIndex, newIndex) :
                     newIndex \in {NewIndex(currentIndex, direction,
                                            Len(allTasks))}}) :
          found \in {getTaskById(st, taskId, t)},
          allTasks \in {getAllActiveTasks(st, activeOrder, t)},
          currentIndex \in
            {FindIndex(getAllActiveTasks(st, activeOrder, t), taskId)}})

\* one write of the transaction on the working copy
ApplyWrite(work, w, t) ==
  IF w.task = <<>>
    THEN [i \in DOMAIN work |->
            IF i = w.id
              THEN [work[i] EXCEPT !.priority = w.priority, !.updated_at = t]
              ELSE work[i]]
    ELSE updateTask(work, setPriority(w.task[1], w.priority, t))

\* the mutant runs the writes outside a transaction: each is committed at
\* once
WhileOpenAutocommit(committed, work) == work

\* the committed table while a transaction is open: its writes stay in the
\* working copy
WhileOpen(committed, work) == committed

BeginUpdateTaskPriorities ==
  /\ nops < MaxOps
  /\ tx.phase # "open"
  /\ \E taskIdOrder \in IdOrders(rows) :
       tx' = [phase |-> "open", op |-> "updateTaskPriorities", id |-> 0,
              direction |-> "none", order |-> taskIdOrder, before |-> rows,
              work |-> rows, todo |-> PriorityWrites(taskIdOrder),
              started |-> now]
  /\ UNCHANGED <<rows, now, nops, last, firstCompleted, db, call>>

BeginMoveTask ==
  /\ nops < MaxOps
  /\ tx.phase # "open"
  /\ \E id \in DOMAIN rows, direction \in Directions,
        activeOrder \in ActiveOrders(rows) :
       \E reorderedTasks \in
            {MoveReordered(rows, id, direction, activeOrder, now)} :
         /\ reorderedTasks # <<>>
         /\ tx' = [phase |-> "open", op |-> "moveTask", id |-> id,
                   direction |-> direction, order |-> activeOrder,
                   before |-> rows, work |-> rows,
                   todo |-> TaskWrites(reorderedTasks), started |-> now]
  /\ UNCHANGED <<rows, now, nops, last, firstCompleted, db, call>>

\* the next write of the open transaction succeeds
TxWrite ==
  /\ tx.phase = "open"
  /\ tx.todo # <<>>
  /\ \E work \in {ApplyWrite(tx.work, Head(tx.todo), now)} :
       /\ tx' = [tx EXCEPT !.work = work, !.todo = Tail(tx.todo)]
       /\ rows' = WhileOpen(rows, work)
  /\ UNCHANGED <<now, nops, last, firstCompleted, db, call>>

\* the next write throws: ROLLBACK, the error reaches the caller
TxFail ==
  /\ tx.phase = "open"
  /\ tx.todo # <<>>
  /\ tx' = [tx EXCEPT !.phase = "rolledback"]
  /\ UNCHANGED <<rows, now, nops, last, firstCompleted, db, call>>

\* every write is done: COMMIT
TxCommit ==
  /\ tx.phase = "open"
  /\ tx.todo = <<>>
  /\ tx' = [tx EXCEPT !.phase = "committed"]
  /\ rows' = tx.work
  /\ nops' = IF tx.work = rows THEN nops ELSE nops + 1
  /\ last' = IF tx.work = rows THEN last ELSE [op |-> tx.op, id |-> tx.id]
  /\ UNCHANGED <<now, firstCompleted, db, call>>

NextTx ==
  \/ CreateTask
  \/ MarkInProgress
  \/ MarkCompleted
  \/ Tick
  \/ BeginUpdateTaskPriorities
  \/ BeginMoveTask
  \/ TxWrite
  \/ TxFail
  \/ TxCommit

SpecTx == Init /\ [][NextTx]_vars

\* ------------------------------------------------------- DatabaseManager
\* the calls made in the connection specification, the legacy rows a store
\* starts with
MaxCalls == 3
MaxLegacy == 2

\* where initialize may throw: nowhere, in migration v1, in migration v2
Failures == {"none", "v1", "v2"}

\* NULL in a text column: a text no content or JSON text is equal to
NullText == <<"NULL">>

\* tags IS NULL OR tags = '' OR tags = '[]'
NeedsTags(row) == row.tags \in {NullText, <<>>, <<"[", "]">>}

\* /#\w+/.test(newContent)
HasHashtag(content) == TagMatches(content, 1) # <<>>

\* ' #work'
WorkHashtag == <<" ", "#", "w", "o", "r", "k">>

\* the UPDATE of migration v2 on one row of tasksNeedingTags
MigrateRow(row, t) ==
  [row EXCEPT !.content = IF HasHashtag(@) THEN @ ELSE @ \o WorkHashtag,
              !.tags = JSONstringify(<<FilterTag.work>>),
              !.updated_at = t]

\* the transaction of migration v2
MigrateV2(st, t) ==
  [i \in DOMAIN st |-> IF NeedsTags(st[i]) THEN MigrateRow(st[i], t) ELSE st[i]]

\* the mutant runs a migration whatever the version
NeedsMigrationAlways(currentVersion, version) == TRUE

\* if (currentVersion < version)
NeedsMigration(currentVersion, version) == currentVersion < version

\* the result of a DatabaseManager or TaskRepository call: the state of the
\* database, the table, and whether the call returned (it threw otherwise)
DbOutcome(d, st, ok) == [db |-> d, rows |-> st, ok |-> ok]

\* DatabaseManager.initialize(): new Database, createTables, migrate,
\* createIndexes; fail: where it throws
ManagerInitialize(d, st, fail, t) ==
  LET c == d.opened + 1
      created == [d EXCEPT !.manager = c,
                           !.open = @ \cup {c},
                           !.opened = c,
                           !.ran = {},
                           !.err = "",
                           !.table = IF @ = "none" THEN "current" ELSE @]
      currentVersion == d.version
      runV1 == NeedsMigration(currentVersion, 1)
      runV2 == NeedsMigration(currentVersion, 2)
      afterV1 == IF runV1
                   THEN [created EXCEPT !.table = "current",
                                        !.version = 1,
                                        !.ran = @ \cup {"v1"},
                                        !.runsV1 = @ + 1]
                   ELSE created
      afterV2 == IF runV2
                   THEN [afterV1 EXCEPT !.version = 2,
                                        !.ran = @ \cup {"v2"},
                                        !.runsV2 = @ + 1]
                   ELSE afterV1
  IN  IF runV1 /\ fail = "v1"
        THEN DbOutcome([created EXCEPT !.err = "v1"], st, FALSE)
      ELSE IF runV2 /\ fail = "v2"
        THEN DbOutcome([afterV1 EXCEPT !.err = "v2"], st, FALSE)
      ELSE DbOutcome(afterV2, IF runV2 THEN MigrateV2(st, t) ELSE st, TRUE)

\* DatabaseManager.getConnection()
getConnection(d, st, fail, t) ==
  IF d.manager = NULL THEN ManagerInitialize(d, st, fail, t)
  ELSE DbOutcome(d, st, TRUE)

\* DatabaseManager.close()
ManagerClose(d) ==
  IF d.manager # NULL
    THEN [d EXCEPT !.open = @ \ {d.manager}, !.manager = NULL]
    ELSE d

\* TaskRepository.initialize()
RepoInitialize(d, st, fail, t) ==
  Only({IF ~out.ok THEN out
        ELSE Only({DbOutcome([conn.db EXCEPT !.repo = conn.db.manager],
                             conn.rows, conn.ok) :
                     conn \in {getConnection(out.db, out.rows, fail, t)}}) :
          out \in {ManagerInitialize(d, st, fail, t)}})

\* if (!this.db) this.initialize();
LazyInitialize(d, st, fail, t) ==
  IF d.repo = NULL THEN RepoInitialize(d, st, fail, t)
  ELSE DbOutcome([d EXCEPT !.err = ""], st, TRUE)

\* the connection this.db is open: a statement on a closed or missing
\* connection throws and writes nothing
IsOpen(d) == d.repo # NULL /\ d.repo \in d.open

\* an operation after its lazy initialization pre: its statements run on
\* this.db and leave the table as after
OnConnection(pre, after) ==
  IF ~pre.ok THEN pre
  ELSE IF ~IsOpen(pre.db)
    THEN DbOutcome([pre.db EXCEPT !.err = "not open"], pre.rows, FALSE)
  ELSE DbOutcome(pre.db, after, TRUE)

\* createTask(content) from the lazy initialization on
RepoCreateTask(d, st, content, fail, t) ==
  Only({OnConnection(pre, createTask(pre.rows, content, NULL, t).rows) :
          pre \in {LazyInitialize(d, st, fail, t)}})

\* deleteTask(id) from the lazy initialization on
RepoDeleteTask(d, st, taskId, fail, t) ==
  Only({OnConnection(pre, deleteTask(pre.rows, taskId).rows) :
          pre \in {LazyInitialize(d, st, fail, t)}})

\* TaskRepository.close()
RepoClose(d) == [ManagerClose(d) EXCEPT !.err = ""]

\* new TaskRepository(): a new DatabaseManager without connection
NewRepository(d) == [d EXCEPT !.manager = NULL, !.repo = NULL, !.err = ""]

\* the contents of the rows of a legacy store: "a", "a #Work",
\* "#personal-t http://a.io/b#c"
LegacyContents == {PlainContent, WorkContent, UrlContent}

\* what the tags of a legacy row can be: NullText in a table that had no tags
\* column or for a row older than the column, else the tags of the content
\* as JSON, or the empty text for a content without hashtag; the rows of a
\* store at version 2 were written with their tags
LegacyTags(content, table, version) ==
  IF table = "legacy" THEN {NullText}
  ELSE {JSONstringify(extractTags(content))}
         \cup (IF version < 2 THEN {NullText} ELSE {})
         \cup (IF version < 2 /\ extractTags(content) = <<>> THEN {<<>>} ELSE {})

LegacyRow(id, content, tags) ==
  [id |-> id,
   content |-> content,
   priority |-> id - 1,
   status |-> "pending",
   created_at |-> 1,
   completed_at |-> NULL,
   scheduled_for |-> NULL,
   updated_at |-> 1,
   extracted_urls |-> JSONstringify(extractUrls(content)),
   tags |-> tags]

\* the store files a repository may be constructed on: no table yet, a
\* table without tags column at version 0, a table with it at version 0, 1
\* or 2
StoreFiles ==
  {f \in [version : 0..2, table : {"none", "legacy", "current"}] :
     /\ f.table = "none" => f.version = 0
     /\ f.table = "legacy" => f.version = 0}

\* a repository constructed on a store file, before its first use
InitDb ==
  /\ now = 1
  /\ nops = 0
  /\ last = [op |-> "none", id |-> 0]
  /\ firstCompleted = [i \in Ids |-> NULL]
  /\ tx = NoTx
  /\ call = NoCall
  /\ \E f \in StoreFiles, n \in 0..MaxLegacy :
       /\ f.table = "none" => n = 0
       /\ \E contents \in [1..n -> LegacyContents] :
            \E tags \in [1..n -> UNION {LegacyTags(c, f.table, f.version) :
                                          c \in LegacyContents}] :
              /\ \A k \in 1..n :
                   tags[k] \in LegacyTags(contents[k], f.table, f.version)
              /\ rows = [k \in 1..n |-> LegacyRow(k, contents[k], tags[k])]
       /\ db = [version |-> f.version, table |-> f.table,
                manager |-> NULL, repo |-> NULL, open |-> {}, opened |-> 0,
                ran |-> {},
                runsV1 |-> IF f.version >= 1 THEN 1 ELSE 0,
                runsV2 |-> IF f.version >= 2 THEN 1 ELSE 0,
                err |-> "", calls |-> 0]

\* the store takes the outcome of a call
DbFinish(out) ==
  /\ db' = [out.db EXCEPT !.calls = @ + 1]
  /\ rows' = out.rows
  /\ UNCHANGED <<now, nops, last, firstCompleted, tx, call>>

Initialize ==
  /\ db.calls < MaxCalls
  /\ \E fail \in Failures :
       \E out \in {RepoInitialize(db, rows, fail, now)} : DbFinish(out)

LazyCreateTask ==
  /\ db.calls < MaxCalls
  /\ Cardinality(DOMAIN rows) < MaxTasks
  /\ \E fail \in Failures, content \in {PlainContent, WorkContent} :
       \E out \in {RepoCreateTask(db, rows, content, fail, now)} :
         DbFinish(out)

LazyDeleteTask ==
  /\ db.calls < MaxCalls
  /\ \E fail \in Failures, id \in IdInputs(rows) :
       \E out \in {RepoDeleteTask(db, rows, id, fail, now)} : DbFinish(out)

Close ==
  /\ db.calls < MaxCalls
  /\ DbFinish(DbOutcome(RepoClose(db), rows, TRUE))

Construct ==
  /\ db.calls < MaxCalls
  /\ DbFinish(DbOutcome(NewRepository(db), rows, TRUE))

NextDb ==
  \/ Initialize
  \/ LazyCreateTask
  \/ LazyDeleteTask
  \/ Close
  \/ Construct
  \/ Tick

SpecDb == InitDb /\ [][NextDb]_vars

\* ------------------------------------------------- extractTags on any text
\* the longest content, and the characters contents are written with: a
\* hash sign, a lower-case and an upper-case letter, a digit, the
\* underscore, and a hyphen and a space as characters outside \w
MaxContentLen == 4
Alphabet == {"#", "a", "B", "1", "_", "-", " "}

\* the texts of at most MaxContentLen characters of the alphabet
Texts == UNION {[1..n -> Alphabet] : n \in 0..MaxContentLen}

\* a task about to be constructed with some content
InitTags ==
  /\ rows = <<>>
  /\ now = 1
  /\ nops = 0
  /\ last = [op |-> "none", id |-> 0]
  /\ firstCompleted = [i \in Ids |-> NULL]
  /\ tx = NoTx
  /\ db = ReadyDb
  /\ \E content \in Texts :
       call = [content |-> content, tags |-> <<>>, done |-> FALSE]

\* this.tags = this.extractTags(content)
ExtractTags ==
  /\ ~call.done
  /\ call' = [call EXCEPT !.tags = extractTags(call.content), !.done = TRUE]
  /\ UNCHANGED <<rows, now, nops, last, firstCompleted, tx, db>>

NextTags == ExtractTags

SpecTags == InitTags /\ [][NextTags]_vars

\* ------------------------------------------------------------------- claims
\* the priorities of the active rows are exactly 0 .. activeCount - 1
Dense(st) ==
  {st[i].priority : i \in ActiveIds(st)} = 0..(Cardinality(ActiveIds(st)) - 1)

\* the sequence o with the elements at k and m exchanged
SwapAt(o, k, m) ==
  [i \in 1..Len(o) |-> IF i = k THEN o[m] ELSE IF i = m THEN o[k] ELSE o[i]]

\* the priorities of the pending rows
PendingPriorities(st) ==
  {st[i].priority : i \in {j \in DOMAIN st : st[j].status = "pending"}}

\* the returned task shows the row as stored
Shows(ret, row) ==
  /\ ret # <<>>
  /\ ret[1].id = row.id
  /\ ret[1].content = row.content
  /\ ret[1].priority = row.priority
  /\ ret[1].status = row.status

C2_EmptyContentRejected ==
  \A id \in IdInputs(rows), c \in {x \in Contents : IsBlank(x)} :
    \A out \in {updateTaskContent(rows, id, c, now)} :
      /\ out.err = "EmptyContent"
      /\ out.rows = rows

\* C3: the task createTask returns has priority 1 + the greatest priority
\* of the pending rows stored before the call, or 0 when there was none.
C3_NewPriorityAfterMaxPending ==
  Cardinality(DOMAIN rows) < MaxTasks =>
    \A content \in Contents, scheduledFor \in DateInputs :
      \A out \in {createTask(rows, content, scheduledFor, now)} :
        /\ out.ret # <<>>
        /\ out.ret[1].priority =
             IF PendingPriorities(rows) = {} THEN 0
             ELSE 1 + Max(PendingPriorities(rows))

\* C4: a stored row has a completion timestamp if and only if its status is
\* completed.
C4_CompletedAtIffCompleted ==
  \A i \in DOMAIN rows :
    (rows[i].completed_at # NULL) <=> (rows[i].status = "completed")

\* C5: a moveTask that changes the position of a task (up from below the
\* top, down from above the bottom of the active listing) leaves the active
\* priorities exactly 0 .. activeCount - 1, and listing the active rows by
\* priority gives the listing before the call with the task and its
\* neighbour exchanged.
C5_MoveReindexesDensely ==
  \A order \in ActiveOrders(rows), k \in 1..Cardinality(ActiveIds(rows)),
     direction \in {"up", "down"} :
    \A m \in {IF direction = "up" THEN k - 1 ELSE k + 1} :
      m \in 1..Len(order) =>
        \A out \in {moveTask(rows, order[k], direction, order, now)} :
          /\ out.err = ""
          /\ Shows(out.ret, out.rows[order[k]])
          /\ out.rows[order[k]].priority = m - 1
          /\ ActiveIds(out.rows) = ActiveIds(rows)
          /\ Dense(out.rows)
          /\ ActiveOrders(out.rows) = {SwapAt(order, k, m)}

\* C5 case: a move has just rewritten the priorities of two or more active
\* rows
C5_Witness ==
  /\ last.op = "moveTask"
  /\ Cardinality(ActiveIds(rows)) >= 2
  /\ last.id \in ActiveIds(rows)
  /\ \E i \in ActiveIds(rows) : rows[i].priority > rows[last.id].priority

\* C6 as stated: in every reachable state the active priorities are a
\* dense ranking 0 .. activeCount - 1 without duplicates.
C6_AlwaysDense == Dense(rows)

\* C6 amended: right after a moveTask that rewrote the store the active
\* priorities are exactly 0 .. activeCount - 1, and a status change of an
\* active task to an active status keeps a dense ranking dense.
C6_DenseAfterMove ==
  /\ last.op = "moveTask" => Dense(rows)
  /\ Dense(rows) =>
       \A i \in ActiveIds(rows), s \in ActiveStatuses :
         \A out \in {changeTaskStatus(rows, i, s, now)} :
           /\ out.err = ""
           /\ Dense(out.rows)

\* C6 case: the ranking a move left, with a task that can change to another
\* active status
C6_Witness ==
  /\ last.op = "moveTask"
  /\ Cardinality(ActiveIds(rows)) >= 2
  /\ Dense(rows)
  /\ \E i \in ActiveIds(rows) : rows[i].status = "pending"

\* C7: moveTask up on the first task of the active listing and moveTask
\* down on the last one return the task and write nothing: the table is
\* the same after the call.
C7_BoundaryMoveWritesNothing ==
  \A order \in ActiveOrders(rows) :
    order # <<>> =>
      /\ \A out \in {moveTask(rows, order[1], "up", order, now)} :
           /\ out.err = ""
           /\ out.rows = rows
           /\ Shows(out.ret, rows[order[1]])
      /\ \A out \in {moveTask(rows, order[Len(order)], "down", order, now)} :
           /\ out.err = ""
           /\ out.rows = rows
           /\ Shows(out.ret, rows[order[Len(order)]])

\* C7 case: two or more active rows, written before the present instant, so
\* that a write by the call would show
C7_Witness ==
  /\ Cardinality(ActiveIds(rows)) >= 2
  /\ \A i \in ActiveIds(rows) : rows[i].updated_at < now
  /\ \E i, j \in ActiveIds(rows) : rows[i].priority < rows[j].priority

\* C8: changeTaskStatus(id, s) on a stored task with s outside the four
\* statuses fails with InvalidStatus and leaves the table unchanged.
C8_InvalidStatusRejected ==
  \A i \in DOMAIN rows :
    \A out \in {changeTaskStatus(rows, i, BadStatus, now)} :
      /\ out.err = "InvalidStatus"
      /\ out.ret = <<>>
      /\ out.rows = rows

\* C8 case: a completed row and an active row, both written before the
\* present instant
C8_Witness ==
  /\ \E i \in DOMAIN rows : rows[i].status = "completed"
  /\ ActiveIds(rows) # {}
  /\ \A i \in DOMAIN rows : rows[i].updated_at < now

\* C9: changeTaskStatus(id, s) on a stored task in any status with any of
\* the four statuses s succeeds and leaves the row with status s and with
\* completed_at the instant of the call when s is completed, absent
\* otherwise; a completion timestamp is never earlier than the first one the
\* task had.  markCompleted writes what changeTaskStatus(id, completed) does.
C9_EveryTransition ==
  \A i \in DOMAIN rows, s \in Statuses :
    \A out \in {changeTaskStatus(rows, i, s, now)} :
      /\ out.err = ""
      /\ out.ret # <<>>
      /\ out.ret[1].status = s
      /\ DOMAIN out.rows = DOMAIN rows
      /\ out.rows[i].status = s
      /\ out.rows[i].completed_at = IF s = "completed" THEN now ELSE NULL
      /\ (s = "completed" /\ firstCompleted[i] # NULL) =>
           out.rows[i].completed_at >= firstCompleted[i]
      /\ s = "completed" => markCompleted(rows, i, now).rows = out.rows

\* C9 case: a task completed at an earlier instant and since returned to
\* pending
C9_Witness ==
  /\ last.op \in {"changeTaskStatus", "markPending"}
  /\ last.id \in DOMAIN rows
  /\ rows[last.id].status = "pending"
  /\ rows[last.id].completed_at = NULL
  /\ firstCompleted[last.id] # NULL
  /\ firstCompleted[last.id] < now

\* the ids that match no row
UnusedIds == (Ids \cup {MissingId}) \ DOMAIN rows

\* the call returned null, raised nothing and wrote nothing
NotFound(out) ==
  /\ out.ret = <<>>
  /\ out.err = ""
  /\ out.rows = rows

\* C10: getTaskById, updateTaskContent with non-empty content,
\* changeTaskStatus, markCompleted, markInProgress, markWaiting, markPending,
\* scheduleTask and moveTask, called with an id that matches no row, return
\* null without raising and without changing the table; so does moveTask on
\* a completed task.
C10_NotFoundIsNull ==
  /\ \A id \in UnusedIds :
       /\ getTaskById(rows, id, now) = <<>>
       /\ \A c \in {x \in Contents : ~IsBlank(x)} :
            NotFound(updateTaskContent(rows, id, c, now))
       /\ \A s \in Statuses : NotFound(changeTaskStatus(rows, id, s, now))
       /\ NotFound(markCompleted(rows, id, now))
       /\ NotFound(markInProgress(rows, id, now))
       /\ NotFound(markWaiting(rows, id, now))
       /\ NotFound(markPending(rows, id, now))
       /\ \A date \in Days : NotFound(scheduleTask(rows, id, date, now))
       /\ \A direction \in Directions, order \in ActiveOrders(rows) :
            NotFound(moveTask(rows, id, direction, order, now))
  /\ \A id \in DOMAIN rows :
       rows[id].status = "completed" =>
         \A direction \in Directions, order \in ActiveOrders(rows) :
           NotFound(moveTask(rows, id, direction, order, now))

\* C10 case: a task just completed beside an active one, and an id of the
\* generator that no row has
C10_Witness ==
  /\ last.op = "markCompleted"
  /\ last.id \in DOMAIN rows
  /\ rows[last.id].status = "completed"
  /\ ActiveIds(rows) # {}
  /\ UnusedIds \cap Ids # {}

\* the table the call of the followed transaction gives when it runs in one
\* step
TxExpected ==
  IF tx.op = "updateTaskPriorities"
    THEN updateTaskPriorities(tx.before, tx.order, tx.started).rows
    ELSE moveTask(tx.before, tx.id, tx.direction, tx.order, tx.started).rows

\* C11: while the writes of moveTask or updateTaskPriorities are under way
\* a read sees the table as it was before the call; when a write fails the
\* table is the one before the call, no priority changed; when all succeed
\* every row carries the priority the call gives it.
C11_PriorityWritesAtomic ==
  /\ tx.phase = "open" => rows = tx.before
  /\ tx.phase = "rolledback" => rows = tx.before
  /\ tx.phase = "committed" =>
       /\ rows = tx.work
       /\ DOMAIN rows = DOMAIN tx.before
       /\ \A expected \in {TxExpected} :
            \A i \in DOMAIN rows : rows[i].priority = expected[i].priority

\* C11 case: a write failed after earlier writes of the transaction had
\* changed priorities in the working copy
C11_Witness ==
  /\ tx.phase = "rolledback"
  /\ tx.todo # <<>>
  /\ \E i \in DOMAIN tx.work : tx.work[i].priority # tx.before[i].priority

\* the positions at which id occurs in the sequence order
Positions(order, id) == {k \in 1..Len(order) : order[k] = id}

\* C12: updateTaskPriorities(ids) returns true; a stored task whose id
\* occurs in ids gets the 0-based position of the id (of its last occurrence
\* when it occurs twice) and the present instant as updated_at; ids without a
\* row change nothing; every other row and every other field stay as they
\* were.
C12_PrioritiesBySequence ==
  \A order \in IdOrders(rows) :
    \A out \in {updateTaskPriorities(rows, order, now)} :
      /\ out.ok
      /\ out.err = ""
      /\ DOMAIN out.rows = DOMAIN rows
      /\ \A i \in DOMAIN rows :
           IF Positions(order, i) = {}
             THEN out.rows[i] = rows[i]
             ELSE /\ out.rows[i].priority = Max(Positions(order, i)) - 1
                  /\ out.rows[i] =
                       [rows[i] EXCEPT !.priority = out.rows[i].priority,
                                       !.updated_at = now]

\* C12 case: a call has renumbered a stored task past 0, beside a row with
\* a completion timestamp or a date that the call had to leave alone
C12_Witness ==
  /\ last.op = "updateTaskPriorities"
  /\ \E i \in DOMAIN rows : rows[i].priority > 0
  /\ \E i \in DOMAIN rows :
       rows[i].scheduled_for # NULL \/ rows[i].completed_at # NULL

\* C13: updateTaskContent(id, c) on a stored task, c not blank, changes
\* content, extracted_urls, tags and updated_at of that row and nothing
\* else: status, priority, created_at, completed_at and scheduled_for stay,
\* every other row stays, and so does the order of all rows by priority.
C13_ContentEditKeepsTheRest ==
  \A i \in DOMAIN rows, c \in {x \in Contents : ~IsBlank(x)} :
    \A out \in {updateTaskContent(rows, i, c, now)} :
      /\ out.err = ""
      /\ DOMAIN out.rows = DOMAIN rows
      /\ out.rows[i].status = rows[i].status
      /\ out.rows[i].priority = rows[i].priority
      /\ out.rows[i].created_at = rows[i].created_at
      /\ out.rows[i].completed_at = rows[i].completed_at
      /\ out.rows[i].scheduled_for = rows[i].scheduled_for
      /\ out.rows[i].id = rows[i].id
      /\ \A j \in DOMAIN rows \ {i} : out.rows[j] = rows[j]
      /\ \A j, k \in DOMAIN rows :
           (out.rows[j].priority < out.rows[k].priority)
             <=> (rows[j].priority < rows[k].priority)

\* C13 case: the content of a completed task was replaced after its
\* completion
C13_Witness ==
  /\ last.op = "updateTaskContent"
  /\ last.id \in DOMAIN rows
  /\ rows[last.id].status = "completed"
  /\ rows[last.id].completed_at # NULL
  /\ rows[last.id].completed_at < rows[last.id].updated_at
  /\ ~IsBlank(rows[last.id].content)

\* C14: a task read back with getTaskById reports its row: createdAt,
\* updatedAt, completedAt and scheduledFor are the row's created_at,
\* updated_at, completed_at and scheduled_for, and tags and extractedUrls are
\* the decoded stored arrays.
C14_ReadBackReportsRow ==
  \A i \in DOMAIN rows :
    \A found \in {getTaskById(rows, i, now)} :
      /\ found # <<>>
      /\ found[1].createdAt = rows[i].created_at
      /\ found[1].updatedAt = rows[i].updated_at
      /\ found[1].completedAt = rows[i].completed_at
      /\ found[1].scheduledFor = rows[i].scheduled_for
      /\ found[1].tags = JSONparse(rows[i].tags)
      /\ found[1].extractedUrls = JSONparse(rows[i].extracted_urls)

\* C15: createTask(content, scheduledFor) inserts exactly one row, under an
\* id no row had, pending, without completion timestamp and with the given
\* scheduledFor; the rows there were are unchanged; and the row stored under
\* an id always carries that id.
C15_CreateInsertsOneRow ==
  /\ \A i \in DOMAIN rows : rows[i].id = i
  /\ Cardinality(DOMAIN rows) < MaxTasks =>
       \A content \in Contents, scheduledFor \in DateInputs :
         \A out \in {createTask(rows, content, scheduledFor, now)} :
           /\ out.err = ""
           /\ out.ret # <<>>
           /\ out.ret[1].id \notin DOMAIN rows
           /\ DOMAIN out.rows = (DOMAIN rows) \cup {out.ret[1].id}
           /\ \A j \in DOMAIN rows : out.rows[j] = rows[j]
           /\ \A row \in {out.rows[out.ret[1].id]} :
                /\ row.id = out.ret[1].id
                /\ row.content = content
                /\ row.status = "pending"
                /\ row.completed_at = NULL
                /\ row.scheduled_for = scheduledFor

\* C15 case: a task created with a date beside an older row that has since
\* been written
C15_Witness ==
  /\ last.op = "createTask"
  /\ last.id \in DOMAIN rows
  /\ rows[last.id].scheduled_for # NULL
  /\ \E j \in DOMAIN rows \ {last.id} :
       rows[j].created_at < rows[j].updated_at

\* C16: deleteTask(id) returns true exactly when a row with the id was
\* stored; afterwards getTaskById(id) is null, every other row is as it was,
\* and deleteTask(id) again returns false and changes nothing.
C16_DeleteReportsRemoval ==
  \A id \in IdInputs(rows) :
    \A out \in {deleteTask(rows, id)} :
      /\ out.err = ""
      /\ out.ok <=> id \in DOMAIN rows
      /\ DOMAIN out.rows = (DOMAIN rows) \ {id}
      /\ \A j \in DOMAIN out.rows : out.rows[j] = rows[j]
      /\ getTaskById(out.rows, id, now) = <<>>
      /\ \A again \in {deleteTask(out.rows, id)} :
           /\ ~again.ok
           /\ again.rows = out.rows

\* C16 case: a row was deleted and another is still stored
C16_Witness ==
  /\ last.op = "deleteTask"
  /\ last.id \notin DOMAIN rows
  /\ DOMAIN rows # {}

\* a listing is in the order of the "all tasks" views: no completed row
\* before a row that is not completed, the rows that are not completed by
\* ascending priority, the completed rows by descending completed_at (a
\* completed row without completed_at after those that have one)
InViewOrder(st, listing) ==
  \A a, b \in 1..Len(listing) :
    a < b =>
      \A x \in {st[listing[a]]}, y \in {st[listing[b]]} :
        /\ ~(x.status = "completed" /\ y.status # "completed")
        /\ (x.status # "completed" /\ y.status # "completed") =>
             x.priority <= y.priority
        /\ (x.status = "completed" /\ y.status = "completed") =>
             x.completed_at >= y.completed_at

\* every result getAllTasks, the work/personal filter and the tag filter
\* can give
Views(st) ==
  getAllTasks(st)
    \cup UNION {getTasksFilteredByWorkPersonal(st, filter) : filter \in Filters}
    \cup UNION {getTasksByTag(st, tag) :
                  tag \in {FilterTag.work, FilterTag.personal}}

\* C17: in every result of getAllTasks, of the work/personal filter and of
\* the tag filter, in the store as it is and as it is after one more task is
\* marked completed, every task that is not completed precedes every
\* completed task, the tasks that are not completed are in ascending
\* priority and the completed ones in descending completed_at.
C17_AllTasksViewOrder ==
  /\ \A listing \in Views(rows) : InViewOrder(rows, listing)
  /\ \A id \in DOMAIN rows :
       \A out \in {markCompleted(rows, id, now)} :
         \A listing \in Views(out.rows) : InViewOrder(out.rows, listing)

\* C17 case: a completed task whose priority is not above that of a task
\* still active, and completing the latter now gives two completion times
C17_Witness ==
  \E i, j \in DOMAIN rows :
    /\ rows[i].status = "completed"
    /\ rows[i].completed_at # NULL
    /\ rows[i].completed_at < now
    /\ rows[j].status # "completed"
    /\ rows[i].priority <= rows[j].priority
    /\ \E listing \in getAllTasks(rows) : Len(listing) >= 2

\* the ids a listing holds
Listed(listing) == {listing[k] : k \in 1..Len(listing)}

\* C18: getCompletedInRange(start, end) returns exactly the completed tasks
\* whose completion time t has start <= t <= end, latest first; and a task
\* completed at t is still returned for the range [t, t] after a later call
\* that leaves its status completed.
C18_CompletedInRangeInclusive ==
  /\ \A startDate \in Times, endDate \in Times :
       \A listing \in getCompletedInRange(rows, startDate, endDate) :
         /\ Listed(listing) =
              {i \in DOMAIN rows :
                 /\ rows[i].status = "completed"
                 /\ rows[i].completed_at \in startDate..endDate}
         /\ \A a, b \in 1..Len(listing) :
              a < b =>
                rows[listing[a]].completed_at >= rows[listing[b]].completed_at
  /\ \A i \in DOMAIN rows :
       (rows[i].status = "completed" /\ rows[i].completed_at # NULL) =>
         \A date \in DateInputs, newContent \in NewContents :
           \A out \in {scheduleTask(rows, i, date, now),
                        updateTaskContent(rows, i, newContent, now)} :
             (i \in DOMAIN out.rows /\ out.rows[i].status = "completed") =>
               \A listing \in getCompletedInRange(out.rows,
                                  rows[i].completed_at, rows[i].completed_at) :
                 i \in Listed(listing)

\* the tags derived from the content include the tag
HasTag(content, tag) ==
  \E tags \in {extractTags(content)} : \E k \in 1..Len(tags) : tags[k] = tag

\* C19: the 'work' and 'personal' filters return exactly the stored tasks
\* whose content yields that tag and 'both' returns every stored task; a
\* task edited to a content without hashtag is no longer in the work filter
\* and still in 'both'; and tasks that were created one after the other,
\* with no other call in between, are listed by getAllPendingTasks in the
\* order of their creation.
C19_FiltersFollowContent ==
  /\ \A filter \in {"work", "personal"} :
       \A listing \in getTasksFilteredByWorkPersonal(rows, filter) :
         Listed(listing) =
           {i \in DOMAIN rows : HasTag(rows[i].content, FilterTag[filter])}
  /\ \A listing \in getTasksFilteredByWorkPersonal(rows, "both") :
       Listed(listing) = DOMAIN rows
  /\ \A i \in DOMAIN rows :
       \A out \in {updateTaskContent(rows, i, PlainContent, now)} :
         /\ \A listing \in getTasksFilteredByWorkPersonal(out.rows, "work") :
              i \notin Listed(listing)
         /\ \A listing \in getTasksFilteredByWorkPersonal(out.rows, "both") :
              i \in Listed(listing)
  /\ nops = Cardinality(DOMAIN rows) =>
       getAllPendingTasks(rows) = {[k \in 1..Cardinality(DOMAIN rows) |-> k]}

Stamps(st, out, t) ==
  \A i \in (DOMAIN st) \cap (DOMAIN out.rows) :
    /\ out.rows[i].updated_at >= st[i].updated_at
    /\ out.rows[i] # st[i] => out.rows[i].updated_at = t

\* the same, and the task the call returned has its row at the time t
StampsTask(st, out, id, t) ==
  /\ Stamps(st, out, t)
  /\ (out.ret # <<>> /\ id \in DOMAIN out.rows) => out.rows[id].updated_at = t

\* C21: updateTaskContent, changeTaskStatus, the mark* shorthands and
\* scheduleTask, when they return the task, leave its row with updated_at
\* at the time of the call; updateTaskPriorities does so for every stored id
\* of its sequence and moveTask for every row it rewrites; no call moves an
\* updated_at back, and every row has created_at <= updated_at <= now.
C21_UpdatedAtStamped ==
  /\ \A i \in DOMAIN rows :
       /\ rows[i].created_at <= rows[i].updated_at
       /\ rows[i].updated_at <= now
  /\ \A id \in IdInputs(rows) :
       /\ \A newContent \in NewContents :
            \A out \in {updateTaskContent(rows, id, newContent, now)} :
              StampsTask(rows, out, id, now)
       /\ \A status \in Statuses :
            \A out \in {changeTaskStatus(rows, id, status, now)} :
              StampsTask(rows, out, id, now)
       /\ \A out \in {markCompleted(rows, id, now),
                        markInProgress(rows, id, now),
                        markWaiting(rows, id, now),
                        markPending(rows, id, now)} :
            StampsTask(rows, out, id, now)
       /\ \A date \in DateInputs :
            \A out \in {scheduleTask(rows, id, date, now)} :
              StampsTask(rows, out, id, now)
  /\ \A taskIdOrder \in IdOrders(rows) :
       \A out \in {updateTaskPriorities(rows, taskIdOrder, now)} :
         /\ Stamps(rows, out, now)
         /\ \A k \in 1..Len(taskIdOrder) :
              taskIdOrder[k] \in DOMAIN rows =>
                out.rows[taskIdOrder[k]].updated_at = now
  /\ \A id \in IdInputs(rows), direction \in Directions,
        activeOrder \in ActiveOrders(rows) :
       \A out \in {moveTask(rows, id, direction, activeOrder, now)} :
         Stamps(rows, out, now)

\* C21 case: a row written by a status change or a scheduling later than
\* its creation, beside a row last written earlier
C21_Witness ==
  /\ last.op \in {"changeTaskStatus", "markCompleted", "scheduleTask"}
  /\ last.id \in DOMAIN rows
  /\ rows[last.id].created_at < rows[last.id].updated_at
  /\ \E j \in DOMAIN rows : rows[j].updated_at < rows[last.id].updated_at

C23_BackfillsWorkTag ==
  db.version < 2 =>
    \A out \in {RepoInitialize(db, rows, "none", now)} :
      /\ out.ok
      /\ DOMAIN out.rows = DOMAIN rows
      /\ \A i \in DOMAIN rows :
           IF NeedsTags(rows[i])
             THEN /\ out.rows[i].tags = JSONstringify(<<FilterTag.work>>)
                  /\ out.rows[i].content = rows[i].content \o WorkHashtag
             ELSE out.rows[i] = rows[i]

\* C27: after an initialize that ran its migrations on a store below
\* version 2, the tags of every row are the tags extractTags yields for
\* the content of that row.
C27_TagsMatchContentAfterMigration ==
  db.version < 2 =>
    \A out \in {RepoInitialize(db, rows, "none", now)} :
      /\ out.ok
      /\ \A i \in DOMAIN out.rows :
           out.rows[i].tags = JSONstringify(extractTags(out.rows[i].content))

\* the call returned and left the repository with an open connection
OnOpenConnection(out) ==
  /\ out.ok
  /\ out.db.err = ""
  /\ IsOpen(out.db)

\* C30: no operation runs a statement on a closed or missing connection:
\* with initializations that do not fail, deleteTask and createTask return
\* with the repository on an open connection, from a repository never
\* initialized, from one in use, and from one that has been closed; and
\* close() after close() throws nothing and changes nothing.
C30_NoStatementOnClosedConnection ==
  /\ db.err # "not open"
  /\ RepoClose(RepoClose(db)) = RepoClose(db)
  /\ \A d \in {db, RepoClose(db)} :
       /\ \A id \in IdInputs(rows) :
            \A out \in {RepoDeleteTask(d, rows, id, "none", now)} :
              OnOpenConnection(out)
       /\ Cardinality(DOMAIN rows) < MaxTasks =>
            \A out \in {RepoCreateTask(d, rows, PlainContent, "none", now)} :
              OnOpenConnection(out)

\* no two active rows of st have the same priority
PairwiseDistinct(st) ==
  \A a, b \in ActiveIds(st) : a # b => st[a].priority # st[b].priority

\* the place of id in the sequence order
PositionOf(order, id) == CHOOSE p \in 1..Len(order) : order[p] = id

\* in the table st with pairwise distinct active priorities, moving the
\* task at place k of the active list to the neighbouring place m exchanges
\* the two, keeps the other active tasks in their relative order, leaves
\* the rows that are not active as they are and returns the task as read
\* after the move
ExchangesNeighbours(st, t) ==
  PairwiseDistinct(st) =>
    \A order \in ActiveOrders(st), k \in 1..Cardinality(ActiveIds(st)),
       direction \in {"up", "down"} :
      \A m \in {IF direction = "up" THEN k - 1 ELSE k + 1} :
        m \in 1..Len(order) =>
          \A out \in {moveTask(st, order[k], direction, order, t)} :
            /\ Cardinality(ActiveOrders(out.rows)) = 1
            /\ \A after \in ActiveOrders(out.rows) :
                 /\ after[m] = order[k]
                 /\ after[k] = order[m]
                 /\ \A a, b \in 1..Len(order) :
                      (a < b /\ a # k /\ b # k) =>
                        PositionOf(after, order[a]) < PositionOf(after, order[b])
            /\ \A i \in (DOMAIN st) \ ActiveIds(st) : out.rows[i] = st[i]
            /\ out.ret # <<>>
            /\ out.ret = getTaskById(out.rows, order[k], t)
            /\ out.ret[1].priority = m - 1

\* the table st, and st after one of its tasks is marked completed
OneCompleted(st, t) ==
  {st} \cup {markCompleted(st, id, t).rows : id \in DOMAIN st}

\* the table st, and st after a move has numbered its active tasks
Numbered(st, t) ==
  {st} \cup {moveTask(st, order[1], "down", order, t).rows :
               order \in {o \in ActiveOrders(st) : Len(o) >= 2}}

\* C24: when the active priorities are pairwise distinct, moveTask(id,
\* 'up') on the task at index i of the active list exchanges it with the
\* task at i-1 ('down': i+1), keeps the relative order of the other active
\* tasks, leaves the completed rows untouched and returns the task re-read
\* with its new priority; in the table as it is, and as it is after a task
\* is marked completed and a move has numbered the active tasks.
C24_MoveExchangesNeighbours ==
  \A st1 \in OneCompleted(rows, now) :
    \A st2 \in Numbered(st1, now) : ExchangesNeighbours(st2, now)

\* C24 case: three active tasks, numbered by a move; with one of them
\* completed the two others are numbered beside a completed row
C24_Witness ==
  /\ Cardinality(ActiveIds(rows)) = 3
  /\ \E st2 \in Numbered(rows, now) : PairwiseDistinct(st2)
  /\ \E st1 \in OneCompleted(rows, now) :
       \E st2 \in Numbered(st1, now) :
         /\ PairwiseDistinct(st2)
         /\ Cardinality(ActiveIds(st2)) = 2
         /\ DOMAIN st2 # ActiveIds(st2)

\* the places of text where a hash sign is followed by a word character
TagStarts(text) ==
  {p \in 1..(Len(text) - 1) : text[p] = "#" /\ text[p + 1] \in WordChars}

\* the k-th place of S from the left
NthOf(S, k) == CHOOSE p \in S : Cardinality({q \in S : q < p}) = k - 1

\* the end of the longest run of word characters that begins at p + 1
RunEnd(text, p) ==
  CHOOSE q \in (p + 1)..Len(text) :
    /\ \A j \in (p + 1)..q : text[j] \in WordChars
    /\ q = Len(text) \/ text[q + 1] \notin WordChars

\* C25: extractTags(C) has one tag for each hash sign of C that a word
\* character follows, in their order from the left, duplicates kept; the
\* tag is the longest run of word characters after the hash sign in lower
\* case; every tag is a non-empty text over a..z, 0..9 and the underscore;
\* "#a-B" yields "a" alone and "#1a" yields "1a".
C25_TagsAreWordRuns ==
  call.done =>
    /\ Len(call.tags) = Cardinality(TagStarts(call.content))
    /\ \A k \in 1..Len(call.tags) :
         \A p \in {NthOf(TagStarts(call.content), k)} :
           /\ call.tags[k] =
                toLowerCase(SubSeq(call.content, p + 1,
                                   RunEnd(call.content, p)))
           /\ call.tags[k] # <<>>
           /\ \A j \in 1..Len(call.tags[k]) :
                call.tags[k][j] \in Lower \cup Digits \cup {"_"}
    /\ call.content = <<"#", "a", "-", "B">> => call.tags = << <<"a">> >>
    /\ call.content = <<"#", "1", "a">> => call.tags = << <<"1", "a">> >>

\* C25 case: "#B#B": two hash signs with an upper-case letter each give the
\* same tag twice
C25_Witness ==
  /\ call.done
  /\ call.content = <<"#", "B", "#", "B">>
  /\ call.tags = << <<"b">>, <<"b">> >>

\* the call left the scheduled_for of every row as it was
KeepsSchedule(st, out) ==
  \A i \in (DOMAIN st) \cap (DOMAIN out.rows) :
    out.rows[i].scheduled_for = st[i].scheduled_for

\* C26: changeTaskStatus, markCompleted, markInProgress, markWaiting,
\* markPending and moveTask leave the scheduled_for of every row as it was.
C26_ScheduleKept ==
  /\ \A id \in IdInputs(rows) :
       /\ \A status \in Statuses :
            \A out \in {changeTaskStatus(rows, id, status, now)} :
              KeepsSchedule(rows, out)
       /\ \A out \in {markCompleted(rows, id, now),
                        markInProgress(rows, id, now),
                        markWaiting(rows, id, now),
                        markPending(rows, id, now)} :
            KeepsSchedule(rows, out)
  /\ \A id \in IdInputs(rows), direction \in Directions,
        activeOrder \in ActiveOrders(rows) :
       \A out \in {moveTask(rows, id, direction, activeOrder, now)} :
         KeepsSchedule(rows, out)

\* the rows of st have a status of Task.STATUS, and every result of
\* getTasksGroupedByStatus divides them: each task is in the group of its
\* status and in no other, and the active group holds the tasks of the
\* pending, in_progress and waiting groups
GroupsPartition(st) ==
  /\ \A i \in DOMAIN st : st[i].status \in Statuses
  /\ \A grouped \in getTasksGroupedByStatus(st) :
       /\ \A status \in Statuses :
            /\ Len(grouped[status]) = Cardinality(Listed(grouped[status]))
            /\ \A i \in Listed(grouped[status]) : st[i].status = status
       /\ \A s1, s2 \in Statuses :
            s1 # s2 => Listed(grouped[s1]) \cap Listed(grouped[s2]) = {}
       /\ UNION {Listed(grouped[status]) : status \in Statuses} = DOMAIN st
       /\ Listed(grouped.active) =
            Listed(grouped.pending) \cup Listed(grouped.in_progress)
              \cup Listed(grouped.waiting)

\* C28: every stored row has one of the four statuses and
\* getTasksGroupedByStatus divides the stored tasks into its pending,
\* in_progress, waiting and completed groups, pairwise disjoint and together
\* all tasks, with the active group the union of the first three; in the
\* table as it is, as it is after one more changeTaskStatus with any
\* status given, and after a task is completed and one more status changed.
C28_GroupsPartitionStore ==
  /\ GroupsPartition(rows)
  /\ \A id \in DOMAIN rows, status \in StatusInputs :
       \A out \in {changeTaskStatus(rows, id, status, now)} :
         /\ GroupsPartition(out.rows)
         /\ status = "completed" =>
              \A id2 \in DOMAIN rows, status2 \in StatusInputs :
                \A out2 \in {changeTaskStatus(out.rows, id2, status2, now)} :
                  GroupsPartition(out2.rows)

\* C28 case: three stored tasks, of which one is then completed and one put
\* in progress: three of the groups have a task
C28_Witness ==
  /\ Cardinality(DOMAIN rows) = 3
  /\ \E i, j \in DOMAIN rows :
       /\ i # j
       /\ \E out \in {changeTaskStatus(rows, i, "completed", now)} :
            \E out2 \in {changeTaskStatus(out.rows, j, "in_progress", now)} :
              \E grouped \in getTasksGroupedByStatus(out2.rows) :
                /\ grouped.completed # <<>>
                /\ grouped.in_progress # <<>>
                /\ grouped.pending # <<>>
                /\ Len(grouped.active) = 2

\* the table st, and st after one of its tasks is put in progress
OneInProgress(st, t) ==
  {st} \cup {markInProgress(st, id, t).rows : id \in DOMAIN st}

\* in the table st, `move <index> up` puts the pending task of that index
\* before the pending task listed before it and `move <index> down` puts it
\* after the pending task listed after it
MovesAmongPending(st, t) ==
  \A pendingTasks \in getAllPendingTasks(st),
     activeOrder \in ActiveOrders(st) :
    \A index \in 1..Len(pendingTasks), direction \in {"up", "down"} :
      \A other \in {IF direction = "up" THEN index - 1 ELSE index + 1} :
        other \in 1..Len(pendingTasks) =>
          \A out \in {cliMove(st, index, direction, pendingTasks,
                               activeOrder, t)} :
            \A after \in getAllPendingTasks(out.rows) :
              IF direction = "up"
                THEN PositionOf(after, pendingTasks[index])
                       < PositionOf(after, pendingTasks[other])
                ELSE PositionOf(after, pendingTasks[index])
                       > PositionOf(after, pendingTasks[other])

\* C29: `move <index> up` on a pending task that is not the first of the
\* pending list puts it before the pending task that preceded it in that
\* list, and `move <index> down` after the one that followed it, also when
\* tasks in progress lie between them in priority; in the table as it is
\* and as it is after a move has numbered the active tasks and one task is
\* put in progress.
C29_CliMoveAmongPending ==
  \A st1 \in Numbered(rows, now) :
    \A st2 \in OneInProgress(st1, now) : MovesAmongPending(st2, now)

====
